---- MODULE Spec2Model ----
(***************************************************************************)
(* Ledger validation and state-transition core of gold_2 (src/src/lib.rs): *)
(* validate_block, push_block (apply) and pop_block (revert) over a        *)
(* BlockchainState, with the helpers they call.                            *)
(*                                                                         *)
(* Representation.                                                         *)
(*  - A u64 amount is an unbounded natural written as a little-endian      *)
(*    sequence of base-1000 limbs without leading zeros (<<>> is 0), since *)
(*    the amounts of the program (200_000_000_000, 2^64 - 1) are above the *)
(*    range of 32-bit integers.  u64 arithmetic reduces modulo 2^64        *)
(*    and reports the overflow; whether an overflow panics or wraps is     *)
(*    the build's overflow-checks setting, the variable overflow_checks.   *)
(*  - A 32-byte key is a string ("k0" is [0; 32]).  A SHA-256 digest is    *)
(*    the term [sha256 |-> preimage]; Zero32 is the all-zero digest.       *)
(*  - Encoded bytes are a sequence of chunks [w |-> width, <kind> |-> v].  *)
(*  - A Schnorr signature is [signer |-> key, msg |-> m]: it verifies for  *)
(*    message m under key signer and for nothing else.                     *)
(***************************************************************************)
EXTENDS Integers, Sequences, FiniteSets, TLC

(***************************************************************************)
(* Unbounded naturals (limb sequences)                                     *)
(***************************************************************************)
LimbBase == 10 * 10 * 10

RECURSIVE Norm(_)
Norm(a) ==
    IF a = <<>> THEN <<>>
    ELSE IF a[Len(a)] = 0 THEN Norm(SubSeq(a, 1, Len(a) - 1))
    ELSE a

RECURSIVE NatToBig(_)
NatToBig(n) ==
    IF n = 0 THEN <<>> ELSE <<n % LimbBase>> \o NatToBig(n \div LimbBase)

RECURSIVE RevSeq(_)
RevSeq(s) == IF s = <<>> THEN <<>> ELSE RevSeq(Tail(s)) \o <<Head(s)>>

\* Num(<<200, 0, 0, 0>>) is 200_000_000_000: the groups of three digits as written.
Num(groups) == Norm(RevSeq(groups))

LimbAt(a, i) == IF i <= Len(a) THEN a[i] ELSE 0

RECURSIVE AddFrom(_, _, _, _)
AddFrom(a, b, i, carry) ==
    IF i > Len(a) /\ i > Len(b)
    THEN (IF carry = 0 THEN <<>> ELSE <<carry>>)
    ELSE LET s == LimbAt(a, i) + LimbAt(b, i) + carry
         IN  <<s % LimbBase>> \o AddFrom(a, b, i + 1, s \div LimbBase)

BigAdd(a, b) == AddFrom(a, b, 1, 0)

RECURSIVE LessFrom(_, _, _)
LessFrom(a, b, i) ==
    IF i = 0 THEN FALSE
    ELSE IF a[i] # b[i] THEN a[i] < b[i]
    ELSE LessFrom(a, b, i - 1)

BigLess(a, b) ==
    IF Len(a) # Len(b) THEN Len(a) < Len(b) ELSE LessFrom(a, b, Len(a))

BigLeq(a, b) == ~BigLess(b, a)

RECURSIVE SubFrom(_, _, _, _)
SubFrom(a, b, i, borrow) ==
    IF i > Len(a) THEN <<>>
    ELSE LET d == a[i] - LimbAt(b, i) - borrow
         IN  IF d < 0
             THEN <<d + LimbBase>> \o SubFrom(a, b, i + 1, 1)
             ELSE <<d>> \o SubFrom(a, b, i + 1, 0)

\* a - b for a >= b
BigSub(a, b) == Norm(SubFrom(a, b, 1, 0))

RECURSIVE MulSmallFrom(_, _, _, _)
MulSmallFrom(a, k, i, carry) ==
    IF i > Len(a) THEN NatToBig(carry)
    ELSE LET p == a[i] * k + carry
         IN  <<p % LimbBase>> \o MulSmallFrom(a, k, i + 1, p \div LimbBase)

\* a * k for a machine-sized k (k < 2_000_000)
BigMulSmall(a, k) == Norm(MulSmallFrom(a, k, 1, 0))

(***************************************************************************)
(* u64 arithmetic: the value modulo 2^64 and whether it overflowed         *)
(***************************************************************************)
TwoPow64 == Num(<<18, 446, 744, 73, 709, 551, 616>>)

U64Max == BigSub(TwoPow64, <<1>>)

RECURSIVE QuotBy2Pow64(_, _, _)
\* floor(a / 2^64), known to lie in lo..hi
QuotBy2Pow64(a, lo, hi) ==
    IF lo = hi THEN lo
    ELSE LET mid == (lo + hi + 1) \div 2
         IN  IF BigLeq(BigMulSmall(TwoPow64, mid), a)
             THEN QuotBy2Pow64(a, mid, hi)
             ELSE QuotBy2Pow64(a, lo, mid - 1)

\* s reduced modulo 2^64, q being floor(s / 2^64)
WrapBy(s, q) == [val |-> BigSub(s, BigMulSmall(TwoPow64, q)), overflow |-> q > 0]

\* the u64 an exact result s < (k + 1) * 2^64 is stored as
wrap_u64(s, k) == WrapBy(s, QuotBy2Pow64(s, 0, k))

add_u64(a, b) == wrap_u64(BigAdd(a, b), 1)

sub_u64(a, b) ==
    IF BigLeq(b, a)
    THEN [val |-> BigSub(a, b), overflow |-> FALSE]
    ELSE [val |-> BigSub(BigAdd(a, TwoPow64), b), overflow |-> TRUE]

\* floor(a / k) for a machine-sized k > 0 (k < 2_000_000): long division from the top limb
RECURSIVE DivSmallFrom(_, _, _, _)
DivSmallFrom(a, k, i, rem) ==
    IF i = 0 THEN <<>>
    ELSE LET cur == rem * LimbBase + a[i]
         IN  DivSmallFrom(a, k, i - 1, cur % k) \o <<cur \div k>>

BigDivSmall(a, k) == Norm(DivSmallFrom(a, k, Len(a), 0))

\* a * k in u64 for a machine-sized k (k <= 1_000_000)
mul_u64(a, k) == wrap_u64(BigMulSmall(a, k), k)

(***************************************************************************)
(* Constants of the program                                                *)
(***************************************************************************)
HEADER_SIZE == 80

TXN_FEES_PER_BYTE == Num(<<400, 0>>)

NAME_CHANGE_FEES_PER_BYTE == Num(<<100, 0, 0>>)

DEFAULT_COINBASE == Num(<<200, 0, 0, 0>>)

\* the lengths of BlockchainState.last_720_times and .last_100_block_sizes
TimesWindow == 720

SizesWindow == 100

(***************************************************************************)
(* Keys, digests, signatures                                               *)
(***************************************************************************)
\* [0; 32]: not the x coordinate of a point of secp256k1
ZeroKey == "k0"

\* the 32-byte values XOnlyPublicKey::from_byte_array accepts
CurvePoints == {"kA", "kB", "kC"}

IsCurvePoint(k) == k \in CurvePoints

Zero32 == [zero |-> 32]

ZeroSig == [zero |-> 64]

\* the place of a signature inside the message it signs
SigHole == [hole |-> 64]

hash(data) == [sha256 |-> data]

HoleOut(data, sig) ==
    [i \in DOMAIN data |->
        IF data[i] = [w |-> 64, sig |-> sig] THEN [w |-> 64, sig |-> SigHole]
        ELSE data[i]]

\* The message as the signature term holds it: an occurrence of the signature
\* in its own message (encode_name_change keeps op.sig) is written SigHole.
MessageFor(msg, sig) ==
    IF "sha256" \in DOMAIN msg THEN [sha256 |-> HoleOut(msg.sha256, sig)]
    ELSE [bytes |-> HoleOut(msg.bytes, sig)]

sign_schnorr(msg, keypair) == [signer |-> keypair, msg |-> msg]

verify_schnorr(sig, msg, key) ==
    /\ DOMAIN sig = {"signer", "msg"}
    /\ sig.signer = key
    /\ sig.msg = MessageFor(msg, sig)

(***************************************************************************)
(* Results                                                                 *)
(***************************************************************************)
Ok == [kind |-> "Ok", msg |-> ""]

BlockValidationError(m) == [kind |-> "BlockValidationError", msg |-> m]

TxnValidationError(m) == [kind |-> "TxnValidationError", msg |-> m]

MissingDataError == [kind |-> "MissingDataError", msg |-> ""]

\* the call did not return: an index out of bounds, an unwrap of None, or an
\* arithmetic overflow in a build with overflow checks
Panic(m) == [kind |-> "panic", msg |-> m]

IsErr(r) == r.kind # "Ok"

\* r?; rest
Try(r, rest) == IF IsErr(r) THEN r ELSE rest

(***************************************************************************)
(* Codec                                                                   *)
(***************************************************************************)
KeyAddr(k) == [tag |-> "Key", key |-> k]

NameAddr(n) == [tag |-> "Name", name |-> n]

RECURSIVE ByteLen(_)
ByteLen(data) == IF data = <<>> THEN 0 ELSE Head(data).w + ByteLen(Tail(data))

encode_address(address) ==
    IF address.tag = "Name"
    THEN << [w |-> 1, byte |-> 1],
            [w |-> 1, byte |-> Len(address.name) % 256],
            [w |-> Len(address.name), str |-> address.name] >>
    ELSE << [w |-> 1, byte |-> 0], [w |-> 32, key |-> address.key] >>

RECURSIVE EncodeRecievers(_)
EncodeRecievers(rs) ==
    IF rs = <<>> THEN <<>>
    ELSE encode_address(Head(rs)[1]) \o << [w |-> 8, u64 |-> Head(rs)[2]] >>
         \o EncodeRecievers(Tail(rs))

encode_txn(txn) ==
    encode_address(txn.sender)
    \o << [w |-> 1, byte |-> Len(txn.recievers) % 256] >>
    \o EncodeRecievers(txn.recievers)
    \o << [w |-> 64, sig |-> txn.signature] >>
    \o << [w |-> 8, u64 |-> txn.fee] >>

encode_name_change(change) ==
    << [w |-> 32, key |-> change.pk],
       [w |-> 64, sig |-> change.sig],
       [w |-> 1, byte |-> Len(change.new_name) % 256],
       [w |-> Len(change.new_name), str |-> change.new_name],
       [w |-> 8, u64 |-> change.fee] >>

encode_header(header) ==
    << [w |-> 32, hash |-> header.prev_block_hash],
       [w |-> 32, hash |-> header.merkle_root],
       [w |-> 8, le |-> header.time],
       [w |-> 8, le |-> header.nonce] >>

txn_hash(txn) == hash(encode_txn(txn))

name_change_hash(change) == hash(encode_name_change(change))

hash_header(header) == hash(encode_header(header))

RECURSIVE SumEncodedLen(_, _)
SumEncodedLen(items, isTxn) ==
    IF items = <<>> THEN 0
    ELSE ByteLen(IF isTxn THEN encode_txn(Head(items))
                 ELSE encode_name_change(Head(items)))
         + SumEncodedLen(Tail(items), isTxn)

block_size(block) ==
    HEADER_SIZE + 4 + SumEncodedLen(block.txns, TRUE)
    + 4 + SumEncodedLen(block.name_changes, FALSE)

(***************************************************************************)
(* Commitment                                                              *)
(***************************************************************************)
RECURSIVE MerkleLevel(_, _)
MerkleLevel(hashes, i) ==
    IF i > Len(hashes) THEN <<>>
    ELSE LET right == IF i + 1 <= Len(hashes) THEN hashes[i + 1] ELSE hashes[i]
         IN  << hash(<< [w |-> 32, hash |-> hashes[i]], [w |-> 32, hash |-> right] >>) >>
             \o MerkleLevel(hashes, i + 2)

RECURSIVE MerkleReduce(_)
MerkleReduce(hashes) ==
    IF Len(hashes) > 1 THEN MerkleReduce(MerkleLevel(hashes, 1)) ELSE hashes[1]

merkle_root(txn_list, name_changes) ==
    IF Len(txn_list) = 0 /\ Len(name_changes) = 0 THEN Zero32
    ELSE MerkleReduce([i \in 1..Len(txn_list) |-> txn_hash(txn_list[i])]
                      \o [i \in 1..Len(name_changes) |-> name_change_hash(name_changes[i])])

(***************************************************************************)
(* Header rules                                                            *)
(***************************************************************************)
\* the loop with equal values failing at its end
RECURSIVE MeetsFromStrict(_, _, _)
MeetsFromStrict(value, difficulty, i) ==
    IF i > 32 THEN FALSE
    ELSE IF value[i] < difficulty[i] THEN TRUE
    ELSE IF value[i] > difficulty[i] THEN FALSE
    ELSE MeetsFromStrict(value, difficulty, i + 1)

RECURSIVE MeetsFrom(_, _, _)
MeetsFrom(value, difficulty, i) ==
    IF i > 32 THEN TRUE
    ELSE IF value[i] < difficulty[i] THEN TRUE
    ELSE IF value[i] > difficulty[i] THEN FALSE
    ELSE MeetsFrom(value, difficulty, i + 1)

\* value and difficulty are [u8; 32], index 1 here being index 0 there
meets_difficulty(value, difficulty) == MeetsFrom(value, difficulty, 1)

\* The difficulty of the chain state the tests build: 00 00 ff .. ff
TestDifficulty == [i \in 1..32 |-> IF i <= 2 THEN 0 ELSE 255]

\* the nonce the tests' block carries, and two that were not ground
GroundNonce == 2224777

EdgeNonce == GroundNonce + 1

BadNonce == GroundNonce - 1

\* SHA-256 is not computed.  The 32 bytes of a header digest, which only
\* meets_difficulty reads, are tabulated over the nonces the model draws: the
\* ground nonce gives a digest below the test difficulty, EdgeNonce one equal to
\* it, any other nonce one above it.
DigestBytes(digest) ==
    LET nonce == digest.sha256[4].le
    IN  IF nonce = GroundNonce THEN [i \in 1..32 |-> IF i <= 2 THEN 0 ELSE 127]
        ELSE IF nonce = EdgeNonce THEN TestDifficulty
        ELSE [i \in 1..32 |-> IF i = 2 THEN 1 ELSE 0]

(***************************************************************************)
(* Economic rules and rolling statistics                                   *)
(***************************************************************************)
\* block_sizes[50] of the sorted copy (index 51 counting from 1)
median_block_size(values) == SortSeq(values, LAMBDA a, b : a < b)[51]

(***************************************************************************)
(* f64 arithmetic (IEEE-754 binary64, round to nearest, ties to even) on   *)
(* the finite values calc_coinbase meets.  A double is [neg, m, e]: the    *)
(* number (-1)^neg * m * 2^e, m a natural of at most 53 bits.              *)
(***************************************************************************)
\* shifts go twenty bits at a time
ChunkBits == 20

RECURSIVE SmallBitLen(_)
SmallBitLen(k) == IF k = 0 THEN 0 ELSE 1 + SmallBitLen(k \div 2)

\* the machine integer a Big below 2^ChunkBits stands for
Small(n) == LimbAt(n, 1) + LimbBase * LimbAt(n, 2) + LimbBase * LimbBase * LimbAt(n, 3)

RECURSIVE BitLenOver(_, _)
BitLenOver(n, high) ==
    IF high = <<>> THEN SmallBitLen(Small(n))
    ELSE ChunkBits + BitLenOver(high, BigDivSmall(high, 2 ^ ChunkBits))

BitLen(n) == BitLenOver(n, BigDivSmall(n, 2 ^ ChunkBits))

RECURSIVE ShiftRight(_, _)
ShiftRight(n, s) ==
    IF s > ChunkBits THEN ShiftRight(BigDivSmall(n, 2 ^ ChunkBits), s - ChunkBits)
    ELSE BigDivSmall(n, 2 ^ s)

RECURSIVE ShiftLeft(_, _)
ShiftLeft(n, s) ==
    IF s > ChunkBits THEN ShiftLeft(BigMulSmall(n, 2 ^ ChunkBits), s - ChunkBits)
    ELSE BigMulSmall(n, 2 ^ s)

IsOdd(n) == n # <<>> /\ n[1] % 2 = 1

RECURSIVE MulFrom(_, _, _)
MulFrom(a, b, i) ==
    IF i > Len(b) THEN <<>>
    ELSE BigAdd(BigMulSmall(a, b[i]), <<0>> \o MulFrom(a, b, i + 1))

BigMul(a, b) == Norm(MulFrom(a, b, 1))

\* q, the kept bits, made the nearest: rem is what was shifted out, half the
\* weight of the first bit shifted out, sticky whether more lies below rem
RoundUp(q, rem, half, sticky) ==
    IF BigLess(half, rem) \/ (rem = half /\ (sticky \/ IsOdd(q)))
    THEN BigAdd(q, <<1>>) ELSE q

RoundShift(n, sh, sticky) ==
    RoundUp(ShiftRight(n, sh), BigSub(n, ShiftLeft(ShiftRight(n, sh), sh)),
            ShiftLeft(<<1>>, sh - 1), sticky)

\* the double nearest to n * 2^e (a little more when sticky), for n of any
\* length when not sticky and of more than 54 bits when sticky
RoundBits(neg, n, e, sticky, bits) ==
    IF bits <= 53 THEN [neg |-> neg, m |-> n, e |-> e]
    ELSE [neg |-> neg, m |-> RoundShift(n, bits - 53, sticky), e |-> e + bits - 53]

round_f64(neg, n, e, sticky) == RoundBits(neg, n, e, sticky, BitLen(n))

\* the quotient x * 2^DivShift / median has more than 54 bits for x >= 1 and
\* median < 2^21
DivShift == 76

DivSticky(num, median, q) == round_f64(FALSE, q, -DivShift, BigMulSmall(q, median) # num)

DivRound(num, median) == DivSticky(num, median, BigDivSmall(num, median))

\* x / median in f64, for integers x >= 1 and 1 <= median < 2^21
f64_div(x, median) == DivRound(ShiftLeft(NatToBig(x), DivShift), median)

OneMinus(d, one) ==
    IF BigLeq(d.m, one)
    THEN round_f64(FALSE, BigSub(one, d.m), d.e, FALSE)
    ELSE round_f64(TRUE, BigSub(d.m, one), d.e, FALSE)

\* 1f64 - d, for d.e < 0
f64_one_minus(d) == OneMinus(d, ShiftLeft(<<1>>, -d.e))

\* percent.powi(1) in the place of percent.powi(2), the sign dropped
f64_powi1(percent) == [percent EXCEPT !.neg = FALSE]

\* percent.powi(2): the product percent * percent
f64_powi2(percent) == round_f64(FALSE, BigMul(percent.m, percent.m), 2 * percent.e, FALSE)

\* (DEFAULT_COINBASE as f64) / 1000_f64 * x, the quotient being 200_000_000 exactly
f64_scale(x) == round_f64(FALSE, BigMulSmall(BigMulSmall(x.m, 200000), 1000), x.e, FALSE)

SaturatingCast(q) == IF BigLess(U64Max, q) THEN U64Max ELSE q

\* v as u64 for v >= 0: truncation, saturating at u64::MAX
f64_as_u64(v) ==
    IF v.e >= 0 THEN SaturatingCast(ShiftLeft(v.m, v.e)) ELSE ShiftRight(v.m, -v.e)

\* A median of 0 makes the quotient infinite: percent is -inf, its square
\* +inf, and the cast saturates.
calc_coinbase(size, median) ==
    IF size - median > 10000 /\ size - 10000 > median
    THEN IF median = 0 THEN mul_u64(U64Max, 1000)
         ELSE mul_u64(f64_as_u64(f64_scale(f64_powi2(f64_one_minus(
                          f64_div(size - 10000 - median, median))))), 1000)
    ELSE [val |-> DEFAULT_COINBASE, overflow |-> FALSE]

\* the u64 sum r, with an overflow that happened earlier remembered
Accumulate(earlier, r) == [val |-> r.val, overflow |-> earlier \/ r.overflow]

\* acc + x in u64
AddTo(acc, x) == Accumulate(acc.overflow, add_u64(acc.val, x))

RECURSIVE SumRecievers(_, _)
SumRecievers(rs, acc) ==
    IF rs = <<>> THEN acc ELSE SumRecievers(Tail(rs), AddTo(acc, Head(rs)[2]))

txn_total_spend(txn) ==
    AddTo(SumRecievers(txn.recievers, [val |-> <<>>, overflow |-> FALSE]), txn.fee)

\* names.get(n).unwrap(): panics on a name that is not in names
address_to_key_unchecked(address, names) ==
    IF address.tag = "Name"
    THEN IF address.name \in DOMAIN names
         THEN [panic |-> FALSE, key |-> names[address.name]]
         ELSE [panic |-> TRUE, key |-> ZeroKey]
    ELSE [panic |-> FALSE, key |-> address.key]

\* address_to_key reporting an unknown name as an invalid transaction
address_to_key_invalid(address, names) ==
    IF address.tag = "Name"
    THEN IF address.name \in DOMAIN names
         THEN [res |-> Ok, key |-> names[address.name]]
         ELSE [res |-> TxnValidationError("unknown name"), key |-> ZeroKey]
    ELSE [res |-> Ok, key |-> address.key]

address_to_key(address, names) ==
    IF address.tag = "Name"
    THEN IF address.name \in DOMAIN names
         THEN [res |-> Ok, key |-> names[address.name]]
         ELSE [res |-> MissingDataError, key |-> ZeroKey]
    ELSE [res |-> Ok, key |-> address.key]

(***************************************************************************)
(* Transaction and rename validation                                       *)
(***************************************************************************)
check_txn(txn, blockchain_state) ==
    LET sender == address_to_key(txn.sender, blockchain_state.name_set)
        zeroed == [txn EXCEPT !.signature = ZeroSig]
        min_fee == BigMulSmall(TXN_FEES_PER_BYTE, ByteLen(encode_txn(zeroed)))
    IN  IF IsErr(sender.res) THEN sender.res
        ELSE IF ~IsCurvePoint(sender.key)
        THEN TxnValidationError("The sender's public key isn't a point on the curve")
        ELSE IF ~verify_schnorr(txn.signature, [bytes |-> encode_txn(zeroed)], sender.key)
        THEN TxnValidationError("signature failed verification")
        ELSE IF sender.key \notin DOMAIN blockchain_state.account_set
        THEN TxnValidationError("The sender's pk isn't in the account set")
        ELSE IF BigLess(txn.fee, min_fee)
        THEN TxnValidationError("Txn doesn't pay enough in fees")
        ELSE Ok

\* The loop of check_txns from index i (index 1 here is the coinbase, skipped):
\* the result of the first failing transaction, or Ok with the fees summed.
\* CheckSpend is the body of the loop after check_txn returned checked, for
\* the sender key and total spend of transaction i.
RECURSIVE CheckTxnsFrom(_, _, _, _, _, _)
RECURSIVE CheckSpend(_, _, _, _, _, _, _, _, _)
CheckSpend(txn_list, blockchain_state, checks, i, fees, total_spend, checked, sender_key, spend) ==
    LET balance == blockchain_state.account_set[sender_key]
        current_spend == IF sender_key \in DOMAIN total_spend
                         THEN total_spend[sender_key] ELSE <<>>
        both == add_u64(spend.val, current_spend)
        \* entry(sender_key).and_modify(..): nothing is inserted for a new key
        new_total == IF sender_key \in DOMAIN total_spend
                     THEN add_u64(total_spend[sender_key], spend.val)
                     ELSE [val |-> <<>>, overflow |-> FALSE]
        new_spend == IF sender_key \in DOMAIN total_spend
                     THEN [total_spend EXCEPT ![sender_key] = new_total.val]
                     ELSE total_spend
        new_fees == add_u64(fees, txn_list[i].fee)
    IN  IF IsErr(checked) THEN [res |-> checked, fees |-> fees]
        ELSE IF checks /\ (spend.overflow \/ both.overflow)
        THEN [res |-> Panic("attempt to add with overflow"), fees |-> fees]
        ELSE IF BigLess(balance, both.val)
        THEN [res |-> TxnValidationError("Sender tried to spend more than their balance"),
              fees |-> fees]
        ELSE IF checks /\ (new_total.overflow \/ new_fees.overflow)
        THEN [res |-> Panic("attempt to add with overflow"), fees |-> fees]
        ELSE CheckTxnsFrom(txn_list, blockchain_state, checks, i + 1,
                           new_fees.val, new_spend)

CheckTxnsFrom(txn_list, blockchain_state, checks, i, fees, total_spend) ==
    IF i > Len(txn_list) THEN [res |-> Ok, fees |-> fees]
    ELSE CheckSpend(txn_list, blockchain_state, checks, i, fees, total_spend,
                    check_txn(txn_list[i], blockchain_state),
                    address_to_key_unchecked(txn_list[i].sender,
                                             blockchain_state.name_set).key,
                    txn_total_spend(txn_list[i]))

\* The coinbase checks that follow the loop, whose outcome is loop.
CheckCoinbase(txn_list, coinbase, checks, loop) ==
    LET allowed == add_u64(coinbase, loop.fees)
    IN  IF IsErr(loop.res) THEN loop.res
        ELSE IF Len(txn_list[1].recievers) > 1
        THEN TxnValidationError("Coinbase txn had more than 1 reciever")
        ELSE IF Len(txn_list[1].recievers) = 0
        THEN Panic("index out of bounds")
        ELSE IF checks /\ allowed.overflow
        THEN Panic("attempt to add with overflow")
        ELSE IF BigLess(allowed.val, txn_list[1].recievers[1][2])
        THEN TxnValidationError("Coinbase transaction produces more currency than allowed")
        ELSE Ok

check_txns(txn_list, blockchain_state, coinbase, checks) ==
    CheckCoinbase(txn_list, coinbase, checks,
                  CheckTxnsFrom(txn_list, blockchain_state, checks, 2, <<>>, <<>>))

check_name_change(op, name_set) ==
    LET encoded_op == encode_name_change(op)
        fee == BigMulSmall(NAME_CHANGE_FEES_PER_BYTE, ByteLen(encoded_op))
    IN  IF ~IsCurvePoint(op.pk)
        THEN TxnValidationError("Rename operation used a pk that isn't a point on the curve")
        ELSE IF op.new_name \in DOMAIN name_set /\ ~IsCurvePoint(name_set[op.new_name])
        THEN Panic("unwrap on an Err value")
        \* the signer computed from name_set is not the key the signature is checked with
        ELSE IF ~verify_schnorr(op.sig, hash(encoded_op), op.pk)
        THEN TxnValidationError("Name-change signature was invalid")
        ELSE IF BigLess(op.fee, fee)
        THEN TxnValidationError("Rename does not pay enough in fees")
        ELSE IF Len(op.new_name) > 255
        THEN TxnValidationError("New name was greater than 255 bytes")
        ELSE Ok

RECURSIVE check_name_changes(_, _)
check_name_changes(op_list, name_set) ==
    IF op_list = <<>> THEN Ok
    ELSE Try(check_name_change(Head(op_list), name_set),
             check_name_changes(Tail(op_list), name_set))

(***************************************************************************)
(* Block validation                                                        *)
(***************************************************************************)
\* the time rule with <= for <
time_is_not_more(block, blockchain_state) ==
    block.header.time <= blockchain_state.previous_block.header.time

\* the condition of the time rule
time_is_less(block, blockchain_state) ==
    block.header.time < blockchain_state.previous_block.header.time

\* from calc_coinbase on, for the reward it returned
ValidateContents(block, blockchain_state, checks, coinbase) ==
    IF checks /\ coinbase.overflow
    THEN Panic("attempt to multiply with overflow")
    ELSE Try(check_txns(block.txns, blockchain_state, coinbase.val, checks),
             check_name_changes(block.name_changes, blockchain_state.name_set))

\* from the size rule on, for the block's size and the median of the window
ValidateSized(block, blockchain_state, checks, size, median) ==
    IF size > 20000 /\ size > 2 * median
    THEN BlockValidationError("Block is bigger than twice the median block size")
    ELSE ValidateContents(block, blockchain_state, checks, calc_coinbase(size, median))

validate_block(block, blockchain_state, checks) ==
    IF Len(block.txns) < 1
    THEN BlockValidationError("The block contains no transactions (coinbase txn is mandatory)")
    ELSE IF ~meets_difficulty(DigestBytes(hash_header(block.header)),
                              blockchain_state.difficulty)
    THEN BlockValidationError("Header hash does not meet required difficulty")
    ELSE IF time_is_less(block, blockchain_state)
    THEN BlockValidationError("Block time is less than previous block time")
    ELSE IF merkle_root(block.txns, block.name_changes) # block.header.merkle_root
    THEN BlockValidationError("Header merkle root does not match calculated merkle root")
    ELSE IF hash(encode_header(blockchain_state.previous_block.header))
            # block.header.prev_block_hash
    THEN BlockValidationError(
             "Header previous block hash does not match calculated hash of previous block")
    ELSE ValidateSized(block, blockchain_state, checks, block_size(block),
                       median_block_size(blockchain_state.last_100_block_sizes))

(***************************************************************************)
(* Rolling windows                                                         *)
(***************************************************************************)
\* push_to_front without its loop: the item written, nothing moved
push_to_front_unshifted(arr, item) ==
    IF Len(arr) = 0
    THEN [arr |-> arr, output |-> 0, panic |-> TRUE]
    ELSE [arr |-> [arr EXCEPT ![Len(arr)] = item], output |-> arr[1], panic |-> FALSE]

\* for i in 0..(arr.len() - 1) { arr[i] = arr[i + 1] }: each step reads an
\* element no earlier step wrote, so position i ends with the old arr[i + 1]
push_to_front(arr, item) ==
    IF Len(arr) = 0
    THEN [arr |-> arr, output |-> 0, panic |-> TRUE]
    ELSE [arr |-> [i \in 1..Len(arr) |-> IF i < Len(arr) THEN arr[i + 1] ELSE item],
          output |-> arr[1], panic |-> FALSE]

\* for i in 1..arr.len() { arr[i + 1] = arr[i] }: i is the source's index, so
\* the write goes to position i + 2 here and is out of bounds when i + 1 = len
RECURSIVE ShiftUp(_, _)
ShiftUp(arr, i) ==
    IF i >= Len(arr) THEN [arr |-> arr, panic |-> FALSE]
    ELSE IF i + 2 > Len(arr) THEN [arr |-> arr, panic |-> TRUE]
    ELSE ShiftUp([arr EXCEPT ![i + 2] = arr[i + 1]], i + 1)

push_to_back(arr, item) ==
    LET shifted == ShiftUp(arr, 1)
    IN  IF shifted.panic \/ Len(arr) = 0
        THEN [arr |-> shifted.arr, panic |-> TRUE]
        ELSE [arr |-> [shifted.arr EXCEPT ![1] = item], panic |-> FALSE]

(***************************************************************************)
(* Maps                                                                    *)
(***************************************************************************)
MapPut(m, k, v) == [x \in DOMAIN m \cup {k} |-> IF x = k THEN v ELSE m[x]]

MapRemove(m, k) == [x \in DOMAIN m \ {k} |-> m[x]]

(***************************************************************************)
(* apply: push_block                                                       *)
(***************************************************************************)
\* for reciever in txn.recievers: entry(key).and_modify(|a| *a += amount).or_insert(amount)
RECURSIVE CreditRecievers(_, _, _, _)
CreditRecievers(rs, account_set, name_set, checks) ==
    IF rs = <<>> THEN [account_set |-> account_set, panic |-> FALSE]
    ELSE
    LET to == address_to_key_unchecked(Head(rs)[1], name_set)
        amount == Head(rs)[2]
        sum == IF to.key \in DOMAIN account_set
               THEN add_u64(account_set[to.key], amount)
               ELSE [val |-> amount, overflow |-> FALSE]
    IN  IF to.panic \/ (checks /\ sum.overflow)
        THEN [account_set |-> account_set, panic |-> TRUE]
        ELSE CreditRecievers(Tail(rs), MapPut(account_set, to.key, sum.val), name_set, checks)

\* for txn in block.txns.iter(): every transaction, the coinbase at index 0 included
RECURSIVE ExecuteTxns(_, _, _, _)
ExecuteTxns(txns, account_set, name_set, checks) ==
    IF txns = <<>> THEN [account_set |-> account_set, panic |-> FALSE]
    ELSE
    LET txn == Head(txns)
        total_spend == txn_total_spend(txn)
        from == address_to_key_unchecked(txn.sender, name_set)
        \* entry(key).and_modify(|a| *a -= total_spend): an absent sender is left absent
        left == IF from.key \in DOMAIN account_set
                THEN sub_u64(account_set[from.key], total_spend.val)
                ELSE [val |-> <<>>, overflow |-> FALSE]
        debited == IF from.key \in DOMAIN account_set
                   THEN [account_set EXCEPT ![from.key] = left.val]
                   ELSE account_set
        credited == CreditRecievers(txn.recievers, debited, name_set, checks)
    IN  IF (checks /\ total_spend.overflow) \/ from.panic
        THEN [account_set |-> account_set, panic |-> TRUE]
        ELSE IF checks /\ left.overflow
        THEN [account_set |-> account_set, panic |-> TRUE]
        ELSE IF credited.panic THEN credited
        ELSE ExecuteTxns(Tail(txns), credited.account_set, name_set, checks)

NoKey == [some |-> FALSE, pk |-> ZeroKey]

SomeKey(k) == [some |-> TRUE, pk |-> k]

\* for op in block.name_changes.iter()
RECURSIVE ExecuteNameChanges(_, _, _, _, _)
ExecuteNameChanges(ops, account_set, name_set, name_undos, checks) ==
    IF ops = <<>>
    THEN [account_set |-> account_set, name_set |-> name_set,
          name_undos |-> name_undos, panic |-> FALSE]
    ELSE
    LET op == Head(ops)
        undo == [old_pk |-> IF op.new_name \in DOMAIN name_set
                            THEN SomeKey(name_set[op.new_name]) ELSE NoKey,
                 name |-> op.new_name,
                 fee |-> op.fee]
        names == MapPut(name_set, op.new_name, op.pk)
        left == IF op.pk \in DOMAIN account_set
                THEN sub_u64(account_set[op.pk], op.fee)
                ELSE [val |-> <<>>, overflow |-> FALSE]
    IN  \* account_set[&op.pk]: indexing a key that is not in the map panics
        IF op.pk \notin DOMAIN account_set
        THEN [account_set |-> account_set, name_set |-> names,
              name_undos |-> Append(name_undos, undo), panic |-> TRUE]
        ELSE IF account_set[op.pk] = op.fee
        THEN ExecuteNameChanges(Tail(ops), MapRemove(account_set, op.pk), names,
                                Append(name_undos, undo), checks)
        ELSE IF checks /\ left.overflow
        THEN [account_set |-> account_set, name_set |-> names,
              name_undos |-> Append(name_undos, undo), panic |-> TRUE]
        ELSE ExecuteNameChanges(Tail(ops), [account_set EXCEPT ![op.pk] = left.val],
                                names, Append(name_undos, undo), checks)

NoUndo == [removed_time |-> 0, removed_block_size |-> 0, txns |-> <<>>, name_changes |-> <<>>]

\* the windows and the UndoBlock, once the renames have run with outcome ops
PushWindows(block, blockchain_state, ops) ==
    LET times == push_to_front(blockchain_state.last_720_times, block.header.time)
        sizes == push_to_front(blockchain_state.last_100_block_sizes, block_size(block))
    IN  IF ops.panic \/ times.panic \/ sizes.panic
        THEN [state |-> [blockchain_state EXCEPT !.account_set = ops.account_set,
                                                 !.name_set = ops.name_set],
              undo |-> NoUndo, panic |-> TRUE]
        ELSE [state |-> [blockchain_state EXCEPT !.account_set = ops.account_set,
                                                 !.name_set = ops.name_set,
                                                 !.last_720_times = times.arr,
                                                 !.last_100_block_sizes = sizes.arr],
              undo |-> [removed_time |-> times.output,
                        removed_block_size |-> sizes.output,
                        txns |-> block.txns,
                        name_changes |-> ops.name_undos],
              panic |-> FALSE]

\* the renames and what follows, once the transactions have run with outcome txns
PushNameChanges(block, blockchain_state, checks, txns) ==
    IF txns.panic
    THEN [state |-> [blockchain_state EXCEPT !.account_set = txns.account_set],
          undo |-> NoUndo, panic |-> TRUE]
    ELSE PushWindows(block, blockchain_state,
                     ExecuteNameChanges(block.name_changes, txns.account_set,
                                        blockchain_state.name_set, <<>>, checks))

\* The state after the call, the UndoBlock it returns, and whether it panicked
\* instead of returning (the state is then as the panic left it).
push_block(block, blockchain_state, checks) ==
    PushNameChanges(block, blockchain_state, checks,
                    ExecuteTxns(block.txns, blockchain_state.account_set,
                                blockchain_state.name_set, checks))

(***************************************************************************)
(* revert: pop_block                                                       *)
(***************************************************************************)
\* for name_change in undo_block.name_changes.iter(): only a Some(old_pk) is written back
RECURSIVE RestoreNames(_, _)
RestoreNames(name_undos, name_set) ==
    IF name_undos = <<>> THEN name_set
    ELSE RestoreNames(Tail(name_undos),
                      IF Head(name_undos).old_pk.some
                      THEN MapPut(name_set, Head(name_undos).name, Head(name_undos).old_pk.pk)
                      ELSE name_set)

RECURSIVE DebitRecievers(_, _, _, _)
DebitRecievers(rs, account_set, name_set, checks) ==
    IF rs = <<>> THEN [account_set |-> account_set, panic |-> FALSE]
    ELSE
    LET to == address_to_key_unchecked(Head(rs)[1], name_set)
        amount == Head(rs)[2]
        left == IF to.key \in DOMAIN account_set
                THEN sub_u64(account_set[to.key], amount)
                ELSE [val |-> <<>>, overflow |-> FALSE]
    IN  IF to.panic \/ to.key \notin DOMAIN account_set
        THEN [account_set |-> account_set, panic |-> TRUE]
        ELSE IF account_set[to.key] = amount
        THEN DebitRecievers(Tail(rs), MapRemove(account_set, to.key), name_set, checks)
        ELSE IF checks /\ left.overflow
        THEN [account_set |-> account_set, panic |-> TRUE]
        ELSE DebitRecievers(Tail(rs), [account_set EXCEPT ![to.key] = left.val],
                            name_set, checks)

\* for txn in undo_block.txns.iter(): in block order, the coinbase first
RECURSIVE UndoTxns(_, _, _, _)
UndoTxns(txns, account_set, name_set, checks) ==
    IF txns = <<>> THEN [account_set |-> account_set, panic |-> FALSE]
    ELSE
    LET txn == Head(txns)
        total_spend == txn_total_spend(txn)
        from == address_to_key_unchecked(txn.sender, name_set)
        back == IF from.key \in DOMAIN account_set
                THEN add_u64(account_set[from.key], total_spend.val)
                ELSE [val |-> <<>>, overflow |-> FALSE]
        refunded == IF from.key \in DOMAIN account_set
                    THEN [account_set EXCEPT ![from.key] = back.val]
                    ELSE account_set
        debited == DebitRecievers(txn.recievers, refunded, name_set, checks)
    IN  IF (checks /\ total_spend.overflow) \/ from.panic \/ (checks /\ back.overflow)
        THEN [account_set |-> account_set, panic |-> TRUE]
        ELSE IF debited.panic THEN debited
        ELSE UndoTxns(Tail(txns), debited.account_set, name_set, checks)

\* the windows, once the names are restored and the transactions undone with outcome txns
PopWindows(undo_block, blockchain_state, names, txns) ==
    LET sizes == push_to_back(blockchain_state.last_100_block_sizes,
                              undo_block.removed_block_size)
        times == push_to_back(blockchain_state.last_720_times, undo_block.removed_time)
        undone == [blockchain_state EXCEPT !.name_set = names,
                                           !.account_set = txns.account_set]
    IN  IF txns.panic THEN [state |-> undone, panic |-> TRUE]
        ELSE IF sizes.panic
        THEN [state |-> [undone EXCEPT !.last_100_block_sizes = sizes.arr], panic |-> TRUE]
        ELSE [state |-> [undone EXCEPT !.last_100_block_sizes = sizes.arr,
                                       !.last_720_times = times.arr],
              panic |-> times.panic]

\* the transactions and what follows, once the names are restored
PopTxns(undo_block, blockchain_state, checks, names) ==
    PopWindows(undo_block, blockchain_state, names,
               UndoTxns(undo_block.txns, blockchain_state.account_set, names, checks))

pop_block(undo_block, blockchain_state, checks) ==
    PopTxns(undo_block, blockchain_state, checks,
            RestoreNames(undo_block.name_changes, blockchain_state.name_set))

(***************************************************************************)
(* Signing                                                                 *)
(***************************************************************************)
\* The fee is set first; the signature is over the encoding of the
\* transaction as it stands, whatever its signature field holds.
finalize_txn(txn, signer_keypair) ==
    LET priced == [txn EXCEPT !.fee = BigMulSmall(TXN_FEES_PER_BYTE, ByteLen(encode_txn(txn)))]
    IN  [priced EXCEPT !.signature = sign_schnorr([bytes |-> encode_txn(priced)],
                                                  signer_keypair)]

(***************************************************************************)
(* The chain state of the tests (create_dummy_blockchainstate) and the     *)
(* blocks offered to it                                                    *)
(***************************************************************************)
\* how many blocks a run applies
MaxBlocks == 2

GenesisHeader == [prev_block_hash |-> Zero32, merkle_root |-> Zero32, time |-> 820, nonce |-> 0]

GenesisState ==
    [account_set |-> [k \in {"kA"} |-> Num(<<200, 0, 0, 0>>)],
     name_set |-> [n \in {"GitMonke"} |-> "kA"],
     difficulty |-> TestDifficulty,
     height |-> 0,
     last_720_times |-> [i \in 1..TimesWindow |-> 100],
     last_100_block_sizes |-> [i \in 1..SizesWindow |-> 10000],
     previous_block |-> [header |-> GenesisHeader, txns |-> <<>>, name_changes |-> <<>>]]

NewTxn(sender, to, amount) ==
    [sender |-> sender, recievers |-> << <<to, amount>> >>, signature |-> ZeroSig, fee |-> <<>>]

\* a transfer signed and priced by finalize_txn
Pay(sender, to, amount, keypair) == finalize_txn(NewTxn(sender, to, amount), keypair)

\* "GitMonke sends 100_000 to all 0's" (create_dummy_valid_block)
TestTxn == Pay(NameAddr("GitMonke"), KeyAddr(ZeroKey), Num(<<100, 0>>), "kA")

LargeTxn == Pay(KeyAddr("kA"), KeyAddr("kB"), Num(<<150, 0, 0, 0>>), "kA")

\* the sender's whole balance: the amount is the balance less the fee
SpendAllTxn(st) ==
    LET fee == Pay(NameAddr("GitMonke"), KeyAddr("kB"), <<>>, "kA").fee
    IN  Pay(NameAddr("GitMonke"), KeyAddr("kB"), BigSub(st.account_set["kA"], fee), "kA")

\* one base unit less than finalize_txn's fee, signed over that fee
UnderpaidTxn ==
    LET t == [TestTxn EXCEPT !.fee = BigSub(TestTxn.fee, <<1>>), !.signature = ZeroSig]
    IN  [t EXCEPT !.signature = sign_schnorr([bytes |-> encode_txn(t)], "kA")]

\* a name of 8 * 2^doublings bytes
RECURSIVE LongName(_, _)
LongName(name, doublings) ==
    IF doublings = 0 THEN name ELSE LongName(name \o name, doublings - 1)

\* a payment to a name of 32_768 bytes, which takes the block over 20_000 bytes
OversizeTxn ==
    Pay(NameAddr("GitMonke"), NameAddr(LongName("GitMonke", 12)), Num(<<100, 0>>), "kA")

\* a payment to a name of 16_384 bytes, which takes the block over 10_000 bytes
\* and leaves it under 20_000
BulkyTxn ==
    Pay(NameAddr("GitMonke"), NameAddr(LongName("GitMonke", 11)), Num(<<100, 0>>), "kA")

\* finalize_txn called on a transaction that already carries a signature
ResignedTxn == finalize_txn(TestTxn, "kA")

\* two outputs of 2^64 - 1 and 1 base units: their sum is 2^64, which is 0 in u64
WrappingTxn ==
    finalize_txn([sender |-> NameAddr("GitMonke"),
                  recievers |-> << <<KeyAddr("kC"), U64Max>>, <<KeyAddr("kC"), <<1>>>> >>,
                  signature |-> ZeroSig, fee |-> <<>>], "kA")

RECURSIVE SumFees(_)
SumFees(txns) == IF txns = <<>> THEN <<>> ELSE BigAdd(Head(txns).fee, SumFees(Tail(txns)))

MakeBlock(st, v) ==
    LET coinbase0 == [sender |-> KeyAddr(ZeroKey), recievers |-> << <<v.to, <<>>>> >>,
                      signature |-> ZeroSig, fee |-> <<>>]
        draft == [header |-> GenesisHeader, txns |-> <<coinbase0>> \o v.body,
                  name_changes |-> v.ops]
        reward == calc_coinbase(block_size(draft),
                                median_block_size(st.last_100_block_sizes)).val
        amount == CASE v.cb = "with_fees" -> BigAdd(reward, SumFees(v.body))
                    [] v.cb = "above" -> BigAdd(BigAdd(reward, SumFees(v.body)), <<1>>)
                    [] v.cb = "over" -> Num(<<300, 0, 0, 0>>)
                    [] OTHER -> reward
        recievers == CASE v.cb = "none" -> <<>>
                       [] v.cb = "two" -> << <<v.to, amount>>, <<v.to, <<>>>> >>
                       [] OTHER -> << <<v.to, amount>> >>
        txns == IF v.cb = "absent" THEN v.body
                ELSE << [coinbase0 EXCEPT !.recievers = recievers] >> \o v.body
        prev == st.previous_block.header
    IN  [header |->
            [prev_block_hash |-> IF v.hdr \in {"bad_prev", "merkle_and_prev"} THEN Zero32
                                 ELSE hash_header(prev),
             merkle_root |-> IF v.hdr \in {"bad_merkle", "time_and_merkle", "merkle_and_prev"}
                             THEN Zero32
                             ELSE merkle_root(txns, v.ops),
             time |-> CASE v.hdr \in {"time_before", "nonce_and_time", "time_and_merkle"}
                               -> prev.time - 1
                        [] v.hdr = "time_equal" -> prev.time
                        [] OTHER -> prev.time + 1,
             nonce |-> CASE v.hdr \in {"bad_nonce", "nonce_and_time"} -> BadNonce
                         [] v.hdr = "edge_nonce" -> EdgeNonce
                         [] OTHER -> GroundNonce],
         txns |-> txns,
         name_changes |-> v.ops]

\* the state the tests' block leaves: push_block on create_dummy_valid_block
AfterTestBlock ==
    push_block(MakeBlock(GenesisState,
                         [body |-> <<TestTxn>>, to |-> NameAddr("GitMonke"), cb |-> "exact",
                          hdr |-> "good", ops |-> <<>>]),
               GenesisState, FALSE).state

Bodies(st) ==
    { <<>>,
      <<TestTxn>>,
      <<LargeTxn>>,
      <<LargeTxn, LargeTxn>>,
      <<Pay(NameAddr("GitMonke"), KeyAddr("kB"), <<>>, "kA")>>,
      <<Pay(NameAddr("GitMonke"), NameAddr("Nobody"), Num(<<100, 0>>), "kA")>>,
      <<Pay(NameAddr("GitMone"), KeyAddr(ZeroKey), Num(<<100, 0>>), "kA")>>,
      <<TestTxn, Pay(NameAddr("GitMone"), KeyAddr(ZeroKey), Num(<<100, 0>>), "kA")>>,
      <<Pay(KeyAddr("kB"), KeyAddr("kA"), Num(<<1, 0, 0, 0>>), "kB")>>,
      <<Pay(KeyAddr(ZeroKey), KeyAddr("kB"), Num(<<100, 0>>), "kA")>>,
      <<Pay(NameAddr("GitMonke"), KeyAddr(ZeroKey), Num(<<100, 0>>), "kB")>>,
      <<Pay(NameAddr("GitMonke"), KeyAddr("kB"), Num(<<900, 0, 0, 0>>), "kA")>>,
      <<UnderpaidTxn>>,
      <<ResignedTxn>> }
    \cup (IF "kA" \in DOMAIN st.account_set
             /\ BigLess(Num(<<1, 0, 0>>), st.account_set["kA"])
          THEN { <<SpendAllTxn(st)>> } ELSE {})
    \cup (IF ZeroKey \in DOMAIN st.account_set /\ st.account_set[ZeroKey] = Num(<<100, 0>>)
             /\ st = AfterTestBlock
          THEN { <<WrappingTxn>> } ELSE {})

\* a rename whose signature verifies, under keypair, for the message
\* check_name_change computes (the hash of the encoding that holds the signature)
Rename(pk, new_name, keypair) ==
    LET unsigned == [pk |-> pk, sig |-> SigHole, new_name |-> new_name, fee |-> <<>>]
        priced == [unsigned EXCEPT
                      !.fee = BigMulSmall(NAME_CHANGE_FEES_PER_BYTE,
                                          ByteLen(encode_name_change(unsigned)))]
    IN  [priced EXCEPT !.sig = sign_schnorr(hash(encode_name_change(priced)), keypair)]

\* a rename signed over its encoding with the signature bytes zeroed
RenameZeroed(pk, new_name, keypair) ==
    LET priced == [Rename(pk, new_name, keypair) EXCEPT !.sig = ZeroSig]
    IN  [priced EXCEPT !.sig = sign_schnorr(hash(encode_name_change(priced)), keypair)]

RenameLists ==
    { <<Rename("kB", "GitMonke", "kB")>>,
      <<Rename("kB", "GitMonke", "kA")>>,
      <<Rename("kA", "Monke", "kA")>>,
      <<Rename("kB", "Bob", "kB")>>,
      <<RenameZeroed("kA", "Monke", "kA")>>,
      <<[Rename("kA", "Monke", "kA") EXCEPT !.pk = ZeroKey]>> }

\* the coinbase pays the reward, the reward and the fees, one unit more,
\* 300_000_000_000, or the reward to no receiver or to two
CoinbaseKinds == {"exact", "with_fees", "above", "over", "none", "two"}

\* headers with one fault, and with two
HeaderKinds == {"good", "time_before", "time_equal", "bad_merkle", "bad_prev",
                "bad_nonce", "edge_nonce", "nonce_and_time", "time_and_merkle",
                "merkle_and_prev"}

\* a transaction that fails for its fee before one that fails for its sender's name
TwoBadTxns ==
    <<UnderpaidTxn, Pay(NameAddr("GitMone"), KeyAddr(ZeroKey), Num(<<100, 0>>), "kA")>>

BadRename == Rename("kB", "GitMonke", "kA")

BadKeyRename == [Rename("kA", "Monke", "kA") EXCEPT !.pk = ZeroKey]

\* on the tests' block: a rename by kB, which has no account, and a payment of
\* its fee, or of 100_000 more, to kB in the same block
FundedRenames(st) ==
    IF ~(ZeroKey \in DOMAIN st.account_set /\ st.account_set[ZeroKey] = Num(<<100, 0>>)
         /\ st = AfterTestBlock)
    THEN {}
    ELSE
    { [body |-> <<Pay(NameAddr("GitMonke"), KeyAddr("kB"),
                      BigAdd(Rename("kB", "Bob", "kB").fee, extra), "kA")>>,
       to |-> NameAddr("GitMonke"), cb |-> "exact", hdr |-> "good",
       ops |-> <<Rename("kB", "Bob", "kB")>>] : extra \in {<<>>, Num(<<100, 0>>)} }

\* blocks that fail more than one check: a body, a coinbase, a header and renames
FaultyVariants ==
    { [body |-> v[1], to |-> NameAddr("GitMonke"), cb |-> v[2], hdr |-> v[3], ops |-> v[4]] : v \in
        { << <<>>, "absent", "good", <<>> >>,
          << <<>>, "absent", "bad_nonce", <<>> >>,
          << <<OversizeTxn>>, "exact", "good", <<>> >>,
          << <<OversizeTxn>>, "exact", "bad_prev", <<>> >>,
          << <<UnderpaidTxn>>, "exact", "bad_prev", <<>> >>,
          << <<UnderpaidTxn>>, "over", "good", <<>> >>,
          << <<UnderpaidTxn>>, "none", "good", <<>> >>,
          << <<UnderpaidTxn>>, "exact", "good", <<BadRename>> >>,
          << TwoBadTxns, "exact", "good", <<>> >>,
          << <<TwoBadTxns[2], TwoBadTxns[1]>>, "exact", "good", <<>> >>,
          << <<TestTxn>>, "over", "good", <<BadRename>> >>,
          << <<TestTxn>>, "none", "good", <<BadRename>> >>,
          << <<TestTxn>>, "two", "good", <<BadRename>> >>,
          << <<TestTxn>>, "exact", "good", <<BadRename, BadKeyRename>> >>,
          << <<TestTxn>>, "exact", "good", <<BadKeyRename, BadRename>> >> } }

\* the blocks offered: each body under a well-formed coinbase and header, and
\* the tests' body under each coinbase, header and rename list
Variants(st) ==
    { [body |-> b, to |-> NameAddr("GitMonke"), cb |-> "exact", hdr |-> "good", ops |-> <<>>]
        : b \in Bodies(st) }
    \cup { [body |-> b, to |-> KeyAddr("kC"), cb |-> "exact", hdr |-> "good", ops |-> <<>>]
        : b \in { x \in Bodies(st) : x # <<>> /\ x[1].recievers[1][1] = KeyAddr("kB")
                                     /\ x[1].sender # KeyAddr(ZeroKey) } }
    \cup { [body |-> <<TestTxn>>, to |-> NameAddr("GitMonke"), cb |-> c, hdr |-> "good", ops |-> <<>>]
        : c \in CoinbaseKinds }
    \cup { [body |-> <<TestTxn>>, to |-> NameAddr("GitMonke"), cb |-> "exact", hdr |-> h, ops |-> <<>>]
        : h \in HeaderKinds }
    \cup { [body |-> <<TestTxn>>, to |-> NameAddr("GitMonke"), cb |-> "exact", hdr |-> "good", ops |-> r]
        : r \in RenameLists }
    \cup FaultyVariants
    \cup FundedRenames(st)
    \cup (IF median_block_size(st.last_100_block_sizes) = 10000 THEN {}
          ELSE { [body |-> <<BulkyTxn>>, to |-> NameAddr("GitMonke"), cb |-> "exact",
                  hdr |-> "good", ops |-> <<>>] })

Blocks(st) == { MakeBlock(st, v) : v \in Variants(st) }

(***************************************************************************)
(* The state machine                                                       *)
(***************************************************************************)
VARIABLES
    blockchain_state,   \* the BlockchainState
    overflow_checks,    \* the build: TRUE panics on integer overflow, FALSE wraps
    block,              \* the block last handed to validate_block
    result,             \* what validate_block returned for it
    undo_block,         \* the UndoBlock of the last push_block
    snapshot,           \* blockchain_state when the last validate_block or push_block began
    phase,              \* "idle", "validated", "applied", "reverted" or "panicked"
    call,               \* the last call made: "validate_block", "push_block" or "pop_block"
    pushed,             \* the number of push_block calls so far
    probe               \* a function called on its own: its arguments and what it returned

chain_vars == <<blockchain_state, overflow_checks, block, result, undo_block, snapshot, phase,
                call, pushed>>

vars == <<chain_vars, probe>>

NoProbe == [fn |-> "none"]

\* the chain before any call, under either build
ChainInit ==
    /\ blockchain_state = GenesisState
    /\ overflow_checks \in BOOLEAN
    /\ block = GenesisState.previous_block
    /\ result = [kind |-> "none", msg |-> ""]
    /\ undo_block = NoUndo
    /\ snapshot = GenesisState
    /\ phase = "idle"
    /\ call = "none"
    /\ pushed = 0

Init == ChainInit /\ probe = NoProbe

\* validate_block(&block, &blockchain_state) on the next candidate block, once
\* the calls on the previous one are over
Validate ==
    /\ phase \in {"idle", "applied", "reverted"}
    /\ \E b \in Blocks(blockchain_state) :
          \E r \in {validate_block(b, blockchain_state, overflow_checks)} :
              /\ block' = b
              /\ result' = r
              /\ phase' = IF r.kind = "panic" THEN "panicked" ELSE "validated"
    /\ snapshot' = blockchain_state
    /\ call' = "validate_block"
    /\ UNCHANGED <<blockchain_state, overflow_checks, undo_block, pushed, probe>>

\* push_block(block, &mut blockchain_state) on the block that validated
Push ==
    /\ phase = "validated"
    /\ result = Ok
    /\ pushed < MaxBlocks
    /\ \E r \in {push_block(block, blockchain_state, overflow_checks)} :
           /\ blockchain_state' = r.state
           /\ undo_block' = r.undo
           /\ phase' = IF r.panic THEN "panicked" ELSE "applied"
    /\ snapshot' = blockchain_state
    /\ call' = "push_block"
    /\ pushed' = pushed + 1
    /\ UNCHANGED <<overflow_checks, block, result, probe>>

\* pop_block(&undo_block, &mut blockchain_state) with the UndoBlock just returned
Pop ==
    /\ phase = "applied"
    /\ \E r \in {pop_block(undo_block, blockchain_state, overflow_checks)} :
           /\ blockchain_state' = r.state
           /\ phase' = IF r.panic THEN "panicked" ELSE "reverted"
    /\ call' = "pop_block"
    /\ UNCHANGED <<overflow_checks, block, result, undo_block, snapshot, pushed, probe>>

Next == Validate \/ Push \/ Pop

Spec == Init /\ [][Next]_vars

\* validate_block on a chain whose last 100 blocks all had a size of 0 bytes,
\* the window before any block, or of 20_000 bytes
MedianInit ==
    /\ blockchain_state \in
           { [GenesisState EXCEPT !.last_100_block_sizes = [i \in 1..SizesWindow |-> size]]
               : size \in {0, 20000} }
    /\ snapshot = blockchain_state
    /\ overflow_checks \in BOOLEAN
    /\ block = GenesisState.previous_block
    /\ result = [kind |-> "none", msg |-> ""]
    /\ undo_block = NoUndo
    /\ phase = "idle"
    /\ call = "none"
    /\ pushed = 0
    /\ probe = NoProbe

MedianSpec == MedianInit /\ [][Validate]_vars

(***************************************************************************)
(* Functions called on their own                                           *)
(***************************************************************************)
Pending == [kind |-> "pending"]

Returned(v) == [kind |-> "return", val |-> v]

Unwound == [kind |-> "panic"]

\* the calls of calc_coinbase_test
CoinbaseTable ==
    {<<10000, 80>>, <<10001, 80>>, <<10081, 80>>, <<28912, 10000>>, <<183928, 100000>>,
     <<10160, 80>>}

\* block sizes run from 10_000 + M to 10_000 + M + CoinbaseSteps * M / 8
CoinbaseSteps == 24

CoinbaseMedians == {1, 5, 80, 10000, 100000}

\* The arguments calc_coinbase is called with. Over a median of 1 a block of
\* 40_000 bytes takes the reward beyond u64; over a median of 3 a block of
\* 38_481 bytes stays just under u64 and one of 38_818 bytes just goes over;
\* a median of 0 makes the quotient infinite. The medians 3, 7, 10, 43, 1_013
\* and 99_991 make percent inexact, and the stride of 1_187 bytes takes the
\* value before truncation past 2^53, where doubles are no longer integers.
CoinbaseInputs ==
    CoinbaseTable
        \cup {<<40000, 1>>, <<38481, 3>>, <<38818, 3>>, <<58313, 43>>, <<10001, 0>>, <<16000, 0>>}
        \cup {<<10000 + m + (k * m) \div 8, m>> : m \in CoinbaseMedians, k \in 0..CoinbaseSteps}
        \cup {<<10000 + m + k * stride, m>> :
                 m \in {3, 7, 10, 43, 1013, 99991}, k \in 1..CoinbaseSteps, stride \in {1, 1187}}

CoinbaseInit ==
    /\ ChainInit
    /\ probe \in {[fn |-> "calc_coinbase", block_size |-> p[1], median_block_size |-> p[2],
                   ret |-> Pending] : p \in CoinbaseInputs}

\* calc_coinbase(block_size, median_block_size); the multiplication by 1_000
\* panics on overflow when overflow checks are on
CalcCoinbase ==
    /\ probe.fn = "calc_coinbase"
    /\ probe.ret = Pending
    /\ \E r \in {calc_coinbase(probe.block_size, probe.median_block_size)} :
           probe' = [probe EXCEPT !.ret = IF r.overflow /\ overflow_checks
                                          THEN Unwound ELSE Returned(r.val)]
    /\ UNCHANGED chain_vars

CoinbaseSpec == CoinbaseInit /\ [][CalcCoinbase]_vars

DifficultyBytes == {0, 1, 255}

\* 32 bytes, zero but at the indices 0, 1 and 31
Bytes32(first, second, last) ==
    [i \in 1..32 |-> IF i = 1 THEN first ELSE IF i = 2 THEN second ELSE IF i = 32 THEN last ELSE 0]

DifficultyInputs == {Bytes32(a, b, c) : a \in DifficultyBytes, b \in DifficultyBytes, c \in DifficultyBytes}

DifficultyInit ==
    /\ ChainInit
    /\ probe \in {[fn |-> "meets_difficulty", value |-> h, difficulty |-> d, ret |-> Pending] :
                     h \in DifficultyInputs, d \in DifficultyInputs}

\* meets_difficulty(&value, &difficulty)
MeetsDifficulty ==
    /\ probe.fn = "meets_difficulty"
    /\ probe.ret = Pending
    /\ probe' = [probe EXCEPT !.ret = Returned(meets_difficulty(probe.value, probe.difficulty))]
    /\ UNCHANGED chain_vars

DifficultySpec == DifficultyInit /\ [][MeetsDifficulty]_vars

\* windows of 1 to MaxWindow elements
MaxWindow == 3

WindowItems == {1, 2, 3}

WindowInit ==
    /\ ChainInit
    /\ probe \in {[fn |-> "push_to_front", w |-> w, v |-> v, arr |-> w, x |-> v, ret |-> Pending] :
                     w \in UNION {[1..n -> WindowItems] : n \in 1..MaxWindow}, v \in WindowItems}

\* let x = push_to_front(&mut arr, v)
PushToFront ==
    /\ probe.fn = "push_to_front"
    /\ probe.ret = Pending
    /\ \E r \in {push_to_front(probe.arr, probe.v)} :
           probe' = IF r.panic THEN [probe EXCEPT !.ret = Unwound]
                    ELSE [probe EXCEPT !.fn = "push_to_back", !.arr = r.arr, !.x = r.output]
    /\ UNCHANGED chain_vars

\* push_to_back(&mut arr, x)
PushToBack ==
    /\ probe.fn = "push_to_back"
    /\ probe.ret = Pending
    /\ \E r \in {push_to_back(probe.arr, probe.x)} :
           probe' = [probe EXCEPT !.arr = r.arr,
                                  !.ret = IF r.panic THEN Unwound ELSE Returned(<<>>)]
    /\ UNCHANGED chain_vars

WindowNext == PushToFront \/ PushToBack

WindowSpec == WindowInit /\ [][WindowNext]_vars

(***************************************************************************)
(* Vocabulary of the properties                                            *)
(***************************************************************************)
\* the last call was validate_block: block is its argument, result its return
\* value and snapshot the state it was given
Validated == call = "validate_block"

Resolves(address, names) == address.tag = "Key" \/ address.name \in DOMAIN names

KeyOf(address, names) == IF address.tag = "Key" THEN address.key ELSE names[address.name]

RECURSIVE AmountsOf(_)
AmountsOf(rs) == IF rs = <<>> THEN <<>> ELSE BigAdd(Head(rs)[2], AmountsOf(Tail(rs)))

\* spend(t) = (sum of receiver amounts) + fee, as a natural number
Spend(txn) == BigAdd(AmountsOf(txn.recievers), txn.fee)

\* what the sender with key k spends in the non-coinbase transactions up to the i-th
RECURSIVE SpentBy(_, _, _, _)
SpentBy(txns, names, k, i) ==
    IF i < 2 THEN <<>>
    ELSE BigAdd(IF Resolves(txns[i].sender, names) /\ KeyOf(txns[i].sender, names) = k
                THEN Spend(txns[i]) ELSE <<>>,
                SpentBy(txns, names, k, i - 1))

\* some sender's running sum exceeds its balance in st
Overspends(b, st) ==
    \E i \in 2..Len(b.txns) :
        /\ Resolves(b.txns[i].sender, st.name_set)
        /\ KeyOf(b.txns[i].sender, st.name_set) \in DOMAIN st.account_set
        /\ BigLess(st.account_set[KeyOf(b.txns[i].sender, st.name_set)],
                   SpentBy(b.txns, st.name_set, KeyOf(b.txns[i].sender, st.name_set), i))

\* the header checks and the size ceiling pass
HeaderAndSizePass(b, st) ==
    /\ Len(b.txns) >= 1
    /\ meets_difficulty(DigestBytes(hash_header(b.header)), st.difficulty)
    /\ b.header.time >= st.previous_block.header.time
    /\ b.header.merkle_root = merkle_root(b.txns, b.name_changes)
    /\ b.header.prev_block_hash = hash_header(st.previous_block.header)
    /\ ~(block_size(b) > 20000
         /\ block_size(b) > 2 * median_block_size(st.last_100_block_sizes))

\* calc_coinbase(B, M) for block b offered to st
Reward(b, st) == calc_coinbase(block_size(b), median_block_size(st.last_100_block_sizes)).val

RECURSIVE FeesFrom(_, _)
FeesFrom(txns, i) == IF i > Len(txns) THEN <<>> ELSE BigAdd(txns[i].fee, FeesFrom(txns, i + 1))

RECURSIVE TotalOver(_, _)
TotalOver(account_set, keys) ==
    IF keys = {} THEN <<>>
    ELSE BigAdd(account_set[CHOOSE k \in keys : TRUE],
                TotalOver(account_set, keys \ {CHOOSE k \in keys : TRUE}))

\* the sum of all balances
TotalSupply(account_set) == TotalOver(account_set, DOMAIN account_set)

\* txn is what finalize_txn leaves of a transaction that carried no
\* signature ([0; 64]) or the signature an earlier finalize_txn had given it
ProducedByFinalize(txn, keypair) ==
    \E prior \in {ZeroSig,
                  finalize_txn([txn EXCEPT !.signature = ZeroSig, !.fee = <<>>],
                               keypair).signature} :
        txn = finalize_txn([txn EXCEPT !.signature = prior, !.fee = <<>>], keypair)

\* the conditions on a block's contents other than its renames: a coinbase
\* with one receiver paid calc_coinbase(B, M); each other transaction produced
\* by finalize_txn with the keypair of its sender, who holds an account
\* covering the spend; a header with the computed merkle root, the hash of the
\* previous header, a time not before the previous one and a digest meeting
\* the difficulty; a size under the ceiling
WellFormed(b, st) ==
    /\ HeaderAndSizePass(b, st)
    /\ Len(b.txns[1].recievers) = 1
    /\ b.txns[1].recievers[1][2] = Reward(b, st)
    /\ \A i \in 2..Len(b.txns) :
          /\ Resolves(b.txns[i].sender, st.name_set)
          /\ IsCurvePoint(KeyOf(b.txns[i].sender, st.name_set))
          /\ KeyOf(b.txns[i].sender, st.name_set) \in DOMAIN st.account_set
          /\ ProducedByFinalize(b.txns[i], KeyOf(b.txns[i].sender, st.name_set))
          /\ BigLeq(Spend(b.txns[i]),
                    st.account_set[KeyOf(b.txns[i].sender, st.name_set)])

\* every rename of the block passes check_name_change
RenamesPass(b, st) ==
    \A i \in 1..Len(b.name_changes) : check_name_change(b.name_changes[i], st.name_set) = Ok

\* the first non-coinbase transaction that fails is one whose sender is a name
\* that names does not hold
FirstFailureIsMissingName(b, st, checks) ==
    \E i \in 2..Len(b.txns) :
        /\ b.txns[i].sender.tag = "Name"
        /\ b.txns[i].sender.name \notin DOMAIN st.name_set
        /\ CheckTxnsFrom(SubSeq(b.txns, 1, i - 1), st, checks, 2, <<>>, <<>>).res = Ok

(***************************************************************************)
(* Properties                                                              *)
(***************************************************************************)
\* C1 (undo fidelity): once pop_block has run on the UndoBlock push_block
\* returned for a block validate_block accepted, it has returned and the
\* state equals, in every field, the state push_block was given.
C1_UndoFidelity ==
    call = "pop_block" => (phase = "reverted" /\ blockchain_state = snapshot)

\* C2 (apply never fails on a validated block): push_block on a block
\* validate_block accepted for the same state returns; it does not panic.
C2_ApplyNeverFails ==
    call = "push_block" => phase = "applied"

\* C3 (per-sender cumulative spend): when the header checks and the size
\* ceiling pass and some sender's running sum of spends over the block's
\* non-coinbase transactions exceeds its balance, validate_block returns a
\* TxnValidationError.
C3_CumulativeSpend ==
    (Validated /\ HeaderAndSizePass(block, snapshot) /\ Overspends(block, snapshot))
        => result.kind = "TxnValidationError"

\* C4 (account positivity): after push_block or pop_block has returned, no
\* key of account_set maps to 0.
C4_AccountPositivity ==
    phase \in {"applied", "reverted"}
        => \A k \in DOMAIN blockchain_state.account_set :
               blockchain_state.account_set[k] # <<>>

\* C5 (no net creation beyond the coinbase): after push_block has returned for
\* an accepted block in which no sender overspends, the sum of all balances
\* exceeds the sum before the call by at most calc_coinbase(B, M).
C5_NoNetCreation ==
    (phase = "applied" /\ ~Overspends(block, snapshot))
        => BigLeq(TotalSupply(blockchain_state.account_set),
                  BigAdd(TotalSupply(snapshot.account_set), Reward(block, snapshot)))

\* C6 (rename signer rule): a rename of a name that names already holds passes
\* check_name_change only if its signature verifies under the key of the
\* name's current owner.
C6_RenameSignerRule ==
    Validated =>
        \A i \in 1..Len(block.name_changes) :
            (/\ block.name_changes[i].new_name \in DOMAIN snapshot.name_set
             /\ check_name_change(block.name_changes[i], snapshot.name_set) = Ok)
            => verify_schnorr(block.name_changes[i].sig,
                              hash(encode_name_change(block.name_changes[i])),
                              snapshot.name_set[block.name_changes[i].new_name])

\* C7 (coinbase overproduction): when the header checks, the size ceiling and
\* every non-coinbase transaction pass and the single coinbase receiver is
\* paid more than calc_coinbase(B, M) plus the fees of the other transactions,
\* validate_block returns TxnValidationError("Coinbase amount is invalid").
C7_CoinbaseOverproduction ==
    (/\ Validated
     /\ HeaderAndSizePass(block, snapshot)
     /\ CheckTxnsFrom(block.txns, snapshot, overflow_checks, 2, <<>>, <<>>).res = Ok
     /\ Len(block.txns[1].recievers) = 1
     /\ BigLess(BigAdd(Reward(block, snapshot), FeesFrom(block.txns, 2)),
                block.txns[1].recievers[1][2]))
        => result = TxnValidationError("Coinbase amount is invalid")

\* C8 (time monotonicity): a non-empty block that meets the difficulty is
\* rejected with BlockValidationError("Block time is less than previous block
\* time") when its time is less than the previous header's time, and is not
\* rejected with that error when the two times are equal.
C8_TimeMonotonicity ==
    (/\ Validated
     /\ Len(block.txns) >= 1
     /\ meets_difficulty(DigestBytes(hash_header(block.header)), snapshot.difficulty))
        => /\ block.header.time < snapshot.previous_block.header.time
                => result = BlockValidationError("Block time is less than previous block time")
           /\ block.header.time = snapshot.previous_block.header.time
                => result # BlockValidationError("Block time is less than previous block time")

\* a block one time unit before the previous header has been rejected with the message
C8_RejectedForTime ==
    /\ Validated
    /\ Len(block.txns) >= 1
    /\ meets_difficulty(DigestBytes(hash_header(block.header)), snapshot.difficulty)
    /\ block.header.time < snapshot.previous_block.header.time
    /\ result = BlockValidationError("Block time is less than previous block time")

C10_Acceptance ==
    (Validated /\ WellFormed(block, snapshot) /\ RenamesPass(block, snapshot))
        => result = Ok

\* push_newest(window, v) after the call: every element one index nearer to 0,
\* v at the top index, the length kept
Shifted(after, before, v) ==
    /\ Len(after) = Len(before)
    /\ after[Len(after)] = v
    /\ \A i \in 1..(Len(before) - 1) : after[i] = before[i + 1]

\* C11 (rolling windows on apply): when push_block has returned, the top of
\* last_100_block_sizes is block_size(B) and the top of last_720_times is
\* B.header.time, every other element has moved one index toward 0, the
\* lengths are still 100 and 720, and the UndoBlock holds the two values that
\* were at index 0 before the call.
C11_WindowsOnApply ==
    phase = "applied" =>
        /\ Len(blockchain_state.last_100_block_sizes) = 100
        /\ Len(blockchain_state.last_720_times) = 720
        /\ Shifted(blockchain_state.last_100_block_sizes, snapshot.last_100_block_sizes,
                   block_size(block))
        /\ Shifted(blockchain_state.last_720_times, snapshot.last_720_times, block.header.time)
        /\ undo_block.removed_block_size = snapshot.last_100_block_sizes[1]
        /\ undo_block.removed_time = snapshot.last_720_times[1]

\* a second block has been applied: the first block's time and size have moved
\* one index down, away from the genesis values below them
C11_SecondBlockApplied ==
    /\ phase = "applied"
    /\ pushed = 2
    /\ blockchain_state.last_720_times[719] # blockchain_state.last_720_times[718]
    /\ blockchain_state.last_100_block_sizes[99] # blockchain_state.last_100_block_sizes[98]

\* C12 (chain tip update): when push_block has returned, the previous header of
\* the state is B.header, the height is one more than before the call, and the
\* UndoBlock keeps the header that was replaced.
C12_ChainTipUpdate ==
    phase = "applied" =>
        /\ blockchain_state.previous_block.header = block.header
        /\ blockchain_state.height = snapshot.height + 1
        /\ \E field \in DOMAIN undo_block : undo_block[field] = snapshot.previous_block.header

\* |2M + 10_000 - B|: p = 1 - (B - 10_000 - M) / M is (2M + 10_000 - B) / M
CurveDistance(B, M) == IF 2 * M + 10000 - B < 0 THEN B - 2 * M - 10000 ELSE 2 * M + 10000 - B

\* floor((DEFAULT_COINBASE / 1000) * p^2) * 1000 over the rationals, for M > 0
CurveValue(B, M) ==
    BigMulSmall(BigDivSmall(BigDivSmall(BigMulSmall(BigMulSmall(BigMulSmall(
        NatToBig(CurveDistance(B, M)), CurveDistance(B, M)), 200000), 1000), M), M), 1000)

\* the expectations of calc_coinbase_test
CoinbaseTableValues ==
    {<<10000, 80, DEFAULT_COINBASE>>, <<10001, 80, DEFAULT_COINBASE>>,
     <<10081, 80, Num(<<195, 31, 250, 0>>)>>, <<28912, 10000, Num(<<2, 367, 488, 0>>)>>,
     <<183928, 100000, Num(<<13, 594, 983, 0>>)>>, <<10160, 80, <<>> >>}

\* calc_coinbase has been called and is over
CoinbaseCalled == probe.fn = "calc_coinbase" /\ probe.ret # Pending

\* floor((DEFAULT_COINBASE / 1000) * p^2) over the rationals, for M > 0
CurveFloor(B, M) == BigDivSmall(CurveValue(B, M), 1000)

\* what the roundings of the f64 evaluation and the truncation can move the
\* integer by: 1 + floor(x / 2^48)
CurveTolerance(x) == BigAdd(<<1>>, ShiftRight(x, 48))

\* the largest v with v * 1000 <= u64::MAX
MaxThousands == BigDivSmall(U64Max, 1000)

\* |a - b| <= t
BigWithin(a, b, t) == IF BigLess(a, b) THEN BigLeq(BigSub(b, a), t) ELSE BigLeq(BigSub(a, b), t)

\* ret is v * 1000 for an integer v within t of x
ReturnedNear(ret, x, t) ==
    /\ ret.kind = "return"
    /\ BigMulSmall(BigDivSmall(ret.val, 1000), 1000) = ret.val
    /\ BigWithin(BigDivSmall(ret.val, 1000), x, t)

\* the multiplication by 1_000 went beyond u64: a panic under overflow
\* checks, and otherwise the product modulo 2^64, which 8 divides
MultiplicationOverflowed(ret, checks) ==
    IF checks THEN ret = Unwound
    ELSE ret.kind = "return" /\ BigMulSmall(BigDivSmall(ret.val, 8), 8) = ret.val

C14_ZeroBeyondTwiceMedian ==
    CoinbaseCalled =>
        /\ probe.ret.kind = "return"
        /\ BigLeq(probe.ret.val, DEFAULT_COINBASE)
        /\ ( /\ probe.median_block_size > 0
             /\ probe.block_size - 10000 - probe.median_block_size >= probe.median_block_size )
               => probe.ret.val = <<>>

\* h <= d as big-endian unsigned integers: they are equal, or h has the
\* smaller byte at the most significant index where they differ
BigEndianLeq(h, d) ==
    \/ h = d
    \/ \E i \in 1..32 : h[i] < d[i] /\ \A j \in 1..(i - 1) : h[j] = d[j]

\* C15 (difficulty comparison): meets_difficulty(h, d) is true exactly when
\* h <= d, both read as big-endian unsigned integers; equality passes.
C15_DifficultyComparison ==
    (probe.fn = "meets_difficulty" /\ probe.ret # Pending)
        => probe.ret = Returned(BigEndianLeq(probe.value, probe.difficulty))

\* meets_difficulty has returned true for a nonzero value equal to the difficulty
C15_EqualityPasses ==
    /\ probe.fn = "meets_difficulty"
    /\ probe.value = probe.difficulty
    /\ probe.value[32] = 255
    /\ probe.ret = Returned(TRUE)

\* C16 (window inverse): for every window w and value v, the call
\* x = push_to_front(w, v) followed by push_to_back(w, x) completes without an
\* out-of-bounds access and leaves w as it was.
C16_WindowInverse ==
    (probe.fn = "push_to_back" /\ probe.ret # Pending)
        => (probe.ret = Returned(<<>>) /\ probe.arr = probe.w)

\* C17 (names restored on revert): after push_block and then pop_block with
\* the UndoBlock returned, the names map is the one before push_block: a name
\* the block created is absent again, a name it transferred is back with its
\* owner.
C17_NamesRestored ==
    call = "pop_block" => blockchain_state.name_set = snapshot.name_set

\* the loop of check_txns passes on the non-coinbase transactions
TxnsPass(b, st, checks) == CheckTxnsFrom(b.txns, st, checks, 2, <<>>, <<>>).res = Ok

\* C18 (coinbase shape): validate_block returns a TxnValidation error for
\* every block, passing the checks before the coinbase check, whose coinbase
\* has no receiver or more than one; it does not panic.
C18_CoinbaseShape ==
    ( /\ Validated
      /\ HeaderAndSizePass(block, snapshot)
      /\ TxnsPass(block, snapshot, overflow_checks)
      /\ Len(block.txns[1].recievers) # 1 )
        => result.kind = "TxnValidationError"

\* the balance of key k, nothing for a key without an account
BalanceOf(account_set, k) == IF k \in DOMAIN account_set THEN account_set[k] ELSE <<>>

\* C19 (coinbase frame): push_block on a block that holds the coinbase alone,
\* whose receiver's balance has room for the receiver amount, returns; the
\* balance of the receiver has grown by the receiver amount, and no other
\* balance has changed, the balance of the key in the coinbase's sender field
\* included.
C19_CoinbaseFrame ==
    ( /\ call = "push_block"
      /\ Len(block.txns) = 1
      /\ block.name_changes = <<>>
      /\ BigLeq(BigAdd(BalanceOf(snapshot.account_set,
                                 KeyOf(block.txns[1].recievers[1][1], snapshot.name_set)),
                       block.txns[1].recievers[1][2]), U64Max) )
        => /\ phase = "applied"
           /\ \A k \in DOMAIN snapshot.account_set \cup DOMAIN blockchain_state.account_set :
                  BalanceOf(blockchain_state.account_set, k)
                      = IF k = KeyOf(block.txns[1].recievers[1][1], snapshot.name_set)
                        THEN BigAdd(BalanceOf(snapshot.account_set, k),
                                    block.txns[1].recievers[1][2])
                        ELSE BalanceOf(snapshot.account_set, k)

\* the least index of a nonempty set of indices
First(indices) == CHOOSE i \in indices : \A j \in indices : i <= j

\* the error of the first transaction after the coinbase at which the loop of
\* check_txns fails, Ok when there is none
FirstTxnFailure(b, st, checks, failing) ==
    IF failing = {} THEN Ok
    ELSE CheckTxnsFrom(SubSeq(b.txns, 1, First(failing)), st, checks, 2, <<>>, <<>>).res

\* the error of the first rename that fails check_name_change, Ok when there is none
FirstRenameFailure(b, st, failing) ==
    IF failing = {} THEN Ok
    ELSE check_name_change(b.name_changes[First(failing)], st.name_set)

\* the verdict of the i-th of the nine checks, taken on its own
Verdict(b, st, checks, i) ==
    CASE i = 1 ->
           IF Len(b.txns) < 1
           THEN BlockValidationError(
                    "The block contains no transactions (coinbase txn is mandatory)")
           ELSE Ok
      [] i = 2 ->
           IF meets_difficulty(DigestBytes(hash_header(b.header)), st.difficulty) THEN Ok
           ELSE BlockValidationError("Header hash does not meet required difficulty")
      [] i = 3 ->
           IF b.header.time >= st.previous_block.header.time THEN Ok
           ELSE BlockValidationError("Block time is less than previous block time")
      [] i = 4 ->
           IF b.header.merkle_root = merkle_root(b.txns, b.name_changes) THEN Ok
           ELSE BlockValidationError(
                    "Header merkle root does not match calculated merkle root")
      [] i = 5 ->
           IF b.header.prev_block_hash = hash_header(st.previous_block.header) THEN Ok
           ELSE BlockValidationError(
                    "Header previous block hash does not match calculated hash of previous block")
      [] i = 6 ->
           IF block_size(b) > 20000
              /\ block_size(b) > 2 * median_block_size(st.last_100_block_sizes)
           THEN BlockValidationError("Block is bigger than twice the median block size")
           ELSE Ok
      [] i = 7 ->
           FirstTxnFailure(b, st, checks,
               {n \in 2..Len(b.txns) :
                   CheckTxnsFrom(SubSeq(b.txns, 1, n), st, checks, 2, <<>>, <<>>).res # Ok})
      [] i = 8 ->
           IF Len(b.txns[1].recievers) # 1
           THEN TxnValidationError("Coinbase txn had more than 1 reciever")
           ELSE IF BigLess(BigAdd(Reward(b, st), FeesFrom(b.txns, 2)),
                           b.txns[1].recievers[1][2])
           THEN TxnValidationError("Coinbase transaction produces more currency than allowed")
           ELSE Ok
      [] OTHER ->
           FirstRenameFailure(b, st,
               {n \in 1..Len(b.name_changes) :
                   check_name_change(b.name_changes[n], st.name_set) # Ok})

\* the checks that fail with every check before them passing: one at most
FailingFirst(b, st, checks) ==
    {i \in 1..9 : (\A j \in 1..(i - 1) : Verdict(b, st, checks, j) = Ok)
                  /\ Verdict(b, st, checks, i) # Ok}

\* C20 (validation order): validate_block returns the error of the first
\* check that fails in the order empty block, difficulty, time, merkle root,
\* previous-block hash, size ceiling, non-coinbase transactions in block
\* order, coinbase, renames in block order; and Ok when none fails.
C20_ValidationOrder ==
    Validated =>
        result = IF FailingFirst(block, snapshot, overflow_checks) = {} THEN Ok
                 ELSE Verdict(block, snapshot, overflow_checks,
                              First(FailingFirst(block, snapshot, overflow_checks)))

\* what the receiver lists of the transactions from the i-th on pay to key k
RECURSIVE ReceivedIn(_, _, _)
ReceivedIn(rs, names, k) ==
    IF rs = <<>> THEN <<>>
    ELSE BigAdd(IF KeyOf(Head(rs)[1], names) = k THEN Head(rs)[2] ELSE <<>>,
                ReceivedIn(Tail(rs), names, k))

RECURSIVE ReceivedBy(_, _, _, _)
ReceivedBy(txns, names, k, i) ==
    IF i > Len(txns) THEN <<>>
    ELSE BigAdd(ReceivedIn(txns[i].recievers, names, k), ReceivedBy(txns, names, k, i + 1))

\* push_block has been called on a block with one rename, whose pk had no
\* account before the block and is paid at least the rename's fee by the
\* transactions of the block
RenamePaidInBlock ==
    /\ call = "push_block"
    /\ Len(block.name_changes) = 1
    /\ block.name_changes[1].pk \notin DOMAIN snapshot.account_set
    /\ BigLeq(block.name_changes[1].fee,
              ReceivedBy(block.txns, snapshot.name_set, block.name_changes[1].pk, 1))

\* C21 (renames run after transactions): push_block applies a rename whose
\* pk has no balance before the block and receives at least the rename's fee
\* from the transactions of the same block: the call returns, the name maps to
\* pk, the fee is debited from the funds just received, and the account is
\* removed when the fee is its whole balance.
C21_RenamesAfterTxns ==
    RenamePaidInBlock =>
        /\ phase = "applied"
        /\ block.name_changes[1].new_name \in DOMAIN blockchain_state.name_set
        /\ blockchain_state.name_set[block.name_changes[1].new_name] = block.name_changes[1].pk
        /\ BigAdd(BalanceOf(blockchain_state.account_set, block.name_changes[1].pk),
                  block.name_changes[1].fee)
               = ReceivedBy(block.txns, snapshot.name_set, block.name_changes[1].pk, 1)
        /\ (block.name_changes[1].fee
                = ReceivedBy(block.txns, snapshot.name_set, block.name_changes[1].pk, 1))
               => block.name_changes[1].pk \notin DOMAIN blockchain_state.account_set

\* C22 (chain linkage over a sequence): when block B has just been applied,
\* validate_block accepts a next block B' only if B'.header.prev_block_hash is
\* the hash of B.header and B'.header.time >= B.header.time, and it rejects
\* with a BlockValidation error a block that links to the header that
\* preceded B.
C22_ChainLinkage ==
    [][ (phase = "applied" /\ call' = "validate_block")
            => /\ result' = Ok
                   => /\ block'.header.prev_block_hash = hash(encode_header(block.header))
                      /\ block'.header.time >= block.header.time
               /\ block'.header.prev_block_hash
                      = hash(encode_header(snapshot.previous_block.header))
                   => result'.kind = "BlockValidationError" ]_vars

\* C23 (no wrap-around in the spend check): when a non-coinbase transaction of
\* the block has a sender with an account and its exact spend, the sum of its
\* receiver amounts plus its fee as natural numbers, exceeds that sender's
\* balance, validate_block returns an error, also when the sum is above
\* 2^64 - 1.
C23_NoWrapAround ==
    (/\ Validated
     /\ \E i \in 2..Len(block.txns) :
            /\ Resolves(block.txns[i].sender, snapshot.name_set)
            /\ KeyOf(block.txns[i].sender, snapshot.name_set) \in DOMAIN snapshot.account_set
            /\ BigLess(snapshot.account_set[KeyOf(block.txns[i].sender, snapshot.name_set)],
                       Spend(block.txns[i])))
        => result.kind \notin {"Ok", "panic"}
====
